---- MODULE Spec2Model ----
(***************************************************************************)
(* A model of rilwal/rust-raytracer (src/main.rs, src/renderer.rs): the    *)
(* f64 arithmetic, the ray-sphere intersection, Ray::cast, the RayIterator *)
(* and the frame loop of main.                                             *)
(*                                                                         *)
(* f64 values are modelled as fixed-point numbers with Scale units per 1.0 *)
(* (round to nearest), extended with the IEEE specials NaN and +/-inf, so  *)
(* that 0.0/0.0, x/0.0 and comparisons with NaN behave as they do in Rust. *)
(* The model has no negative zero, and its resolution (0.001) is far       *)
(* coarser than f64's: camera rays are unit vectors only roughly. usize    *)
(* products stay far below usize::MAX for every camera of the model.       *)
(***************************************************************************)
EXTENDS Integers, Sequences, FiniteSets

\* ---------------------------------------------------------------- state
VARIABLES
    ray,          \* cast harness: the Ray under test
    isect,        \* cast harness: the last ray_sphere_intersection call and its result
    cast,         \* cast harness: the locals and the result of ray.cast()
    cam,          \* the caller's Camera (main's `cam`)
    t,            \* main's `t`
    frames,       \* frames started (camera changes made, in the generator harness)
    pc,           \* main: "while", "for", "update" or "exit"
    it,           \* main: the RayIterator of the frame's for loop, None before the first
    image_data,   \* Renderer::image_data
    window_close, \* the window's should-close flag
    shown,        \* the framebuffer update() last uploaded, with the frame's progress then
    writes,       \* set_pixel calls of the current frame, per framebuffer index
    genA, genB,   \* generator harness: two RayIterators, each with its Camera snapshot
    outA, outB    \* generator harness: the items each has returned, and whether None came

\* ------------------------------------------------------------------ f64
\* Units per 1.0 of the fixed-point image of f64.
Scale == 1000

Fin(n) == [k |-> "fin", v |-> n]
NaN == [k |-> "nan", v |-> 0]
Inf(s) == [k |-> "inf", v |-> s]
\* An f64 literal given in thousandths: Lit(36) is 0.036.
Lit(n) == Fin(n * (Scale \div 1000))

Sgn(n) == IF n > 0 THEN 1 ELSE IF n < 0 THEN -1 ELSE 0
Abs(n) == IF n < 0 THEN -n ELSE n
\* n / d rounded to the nearest integer, d # 0 (the rounding of an f64 operation).
RDiv(n, d) ==
    LET q == Abs(n) \div Abs(d)
        r == Abs(n) % Abs(d)
    IN Sgn(n) * Sgn(d) * (IF r >= Abs(d) - r THEN q + 1 ELSE q)

RECURSIVE SqrtSearch(_, _, _)
\* The largest r in lo..hi with r*r <= x.
SqrtSearch(x, lo, hi) ==
    IF lo >= hi THEN lo
    ELSE LET mid == (lo + hi + 1) \div 2
         IN IF mid * mid <= x THEN SqrtSearch(x, mid, hi)
            ELSE SqrtSearch(x, lo, mid - 1)
\* sqrt(x) rounded to the nearest integer, x >= 0.
ISqrt(x) ==
    LET r == SqrtSearch(x, 0, 46340)
    IN IF x - r * r > r THEN r + 1 ELSE r

IsNaN(a) == a.k = "nan"
IsInf(a) == a.k = "inf"

FNeg(a) == IF IsNaN(a) THEN NaN ELSE [a EXCEPT !.v = -a.v]
FAdd(a, b) ==
    IF IsNaN(a) \/ IsNaN(b) THEN NaN
    ELSE IF IsInf(a) /\ IsInf(b) THEN (IF a.v = b.v THEN a ELSE NaN)
    ELSE IF IsInf(a) THEN a
    ELSE IF IsInf(b) THEN b
    ELSE Fin(a.v + b.v)
FSub(a, b) == FAdd(a, FNeg(b))
FMul(a, b) ==
    IF IsNaN(a) \/ IsNaN(b) THEN NaN
    ELSE IF IsInf(a) \/ IsInf(b)
         THEN (IF Sgn(a.v) * Sgn(b.v) = 0 THEN NaN ELSE Inf(Sgn(a.v) * Sgn(b.v)))
    ELSE Fin(RDiv(a.v * b.v, Scale))
FDiv(a, b) ==
    IF IsNaN(a) \/ IsNaN(b) THEN NaN
    ELSE IF IsInf(a) /\ IsInf(b) THEN NaN
    ELSE IF IsInf(a) THEN Inf(a.v * (IF b.v < 0 THEN -1 ELSE 1))
    ELSE IF IsInf(b) THEN Fin(0)
    ELSE IF b.v = 0 THEN (IF a.v = 0 THEN NaN ELSE Inf(Sgn(a.v)))
    ELSE Fin(RDiv(a.v * Scale, b.v))
FSqrt(a) ==
    IF IsNaN(a) \/ a.v < 0 THEN NaN
    ELSE IF IsInf(a) THEN a
    ELSE Fin(ISqrt(a.v * Scale))
\* The IEEE comparisons: every comparison with NaN is false.
FLt(a, b) ==
    /\ ~IsNaN(a)
    /\ ~IsNaN(b)
    /\ IF IsInf(a) /\ IsInf(b) THEN a.v < b.v
       ELSE IF IsInf(a) THEN a.v < 0
       ELSE IF IsInf(b) THEN b.v > 0
       ELSE a.v < b.v
FEq(a, b) == ~IsNaN(a) /\ ~IsNaN(b) /\ a = b
FLe(a, b) == FLt(a, b) \/ FEq(a, b)

\* f64 as usize: truncates toward zero, NaN and negatives give 0. (+inf saturates
\* to usize::MAX, which no camera of the model reaches: every exposure is finite.)
AsUsize(a) ==
    IF IsNaN(a) \/ a.v <= 0 THEN 0
    ELSE IF IsInf(a) THEN 2147483647
    ELSE a.v \div Scale
\* f64 as u8: truncates toward zero and saturates to 0..255.
AsU8(a) ==
    IF IsNaN(a) \/ a.v <= 0 THEN 0
    ELSE IF IsInf(a) \/ a.v \div Scale > 255 THEN 255
    ELSE a.v \div Scale

\* ------------------------------------------------------------------ glm
vec2(x, y) == [x |-> x, y |-> y]
vec3(x, y, z) == [x |-> x, y |-> y, z |-> z]
\* A Vec3 of literals given in thousandths.
V3(x, y, z) == vec3(Lit(x), Lit(y), Lit(z))

VAdd(u, w) == vec3(FAdd(u.x, w.x), FAdd(u.y, w.y), FAdd(u.z, w.z))
VSub(u, w) == vec3(FSub(u.x, w.x), FSub(u.y, w.y), FSub(u.z, w.z))
VMul(u, s) == vec3(FMul(u.x, s), FMul(u.y, s), FMul(u.z, s))
VDiv(u, s) == vec3(FDiv(u.x, s), FDiv(u.y, s), FDiv(u.z, s))
dot(u, w) == FAdd(FAdd(FMul(u.x, w.x), FMul(u.y, w.y)), FMul(u.z, w.z))
cross(u, w) ==
    vec3(FSub(FMul(u.y, w.z), FMul(w.y, u.z)),
         FSub(FMul(u.z, w.x), FMul(w.z, u.x)),
         FSub(FMul(u.x, w.y), FMul(w.x, u.y)))
inversesqrt(a) == FDiv(Lit(1000), FSqrt(a))
\* glm::normalize(x) = x * inversesqrt(dot(x, x)): NaN components for the zero vector.
normalize(u) == VMul(u, inversesqrt(dot(u, u)))

centimeters(n) == FDiv(n, Lit(100000))
millimeters(n) == FDiv(n, Lit(1000000))

\* ------------------------------------------------- Sphere, Ray, HitRecord
Sphere(center, radius) == [center |-> center, radius |-> radius]
RayNew(origin, dir) == [origin |-> origin, dir |-> dir]
None == [some |-> FALSE]
Some(x) == [some |-> TRUE, val |-> x]
HitRecord(dist, norm, point) == [dist |-> dist, norm |-> norm, point |-> point]

\* Mutant: the farther root is tried before the nearer one.
ray_sphere_intersection_FarFirst(r, sphere, t_min, t_max) ==
    LET oc == VSub(r.origin, sphere.center)
        a == dot(r.dir, r.dir)
        half_b == dot(oc, r.dir)
        c == FSub(dot(oc, oc), FMul(sphere.radius, sphere.radius))
        disc == FSub(FMul(half_b, half_b), FMul(a, c))
        sqrtd == FSqrt(disc)
        root1 == FDiv(FAdd(FNeg(half_b), sqrtd), a)
        root2 == FDiv(FSub(FNeg(half_b), sqrtd), a)
        out1 == FLt(root1, t_min) \/ FLt(t_max, root1)
        out2 == FLt(root2, t_min) \/ FLt(t_max, root2)
        hit(root) ==
            LET point == VAdd(r.origin, VMul(r.dir, root))
                norm == VDiv(VSub(point, sphere.center), sphere.radius)
            IN Some(HitRecord(root, norm, point))
    IN IF FLt(disc, Lit(0)) THEN None
       ELSE IF ~out1 THEN hit(root1)
       ELSE IF ~out2 THEN hit(root2)
       ELSE None

ray_sphere_intersection(r, sphere, t_min, t_max) ==
    LET oc == VSub(r.origin, sphere.center)
        a == dot(r.dir, r.dir)
        half_b == dot(oc, r.dir)
        c == FSub(dot(oc, oc), FMul(sphere.radius, sphere.radius))
        disc == FSub(FMul(half_b, half_b), FMul(a, c))
        sqrtd == FSqrt(disc)
        root1 == FDiv(FSub(FNeg(half_b), sqrtd), a)
        root2 == FDiv(FAdd(FNeg(half_b), sqrtd), a)
        out1 == FLt(root1, t_min) \/ FLt(t_max, root1)
        out2 == FLt(root2, t_min) \/ FLt(t_max, root2)
        hit(root) ==
            LET point == VAdd(r.origin, VMul(r.dir, root))
                norm == VDiv(VSub(point, sphere.center), sphere.radius)
            IN Some(HitRecord(root, norm, point))
    IN IF FLt(disc, Lit(0)) THEN None
       ELSE IF ~out1 THEN hit(root1)
       ELSE IF ~out2 THEN hit(root2)
       ELSE None

RED == V3(1000, 0, 0)
GREEN == V3(0, 1000, 0)
MAGENTA == V3(1000, 0, 1000)
sphere1 == Sphere(V3(0, 0, 0), Lit(2000))
sphere2 == Sphere(V3(0, 3000, 0), Lit(1000))
T_MIN == Lit(0)
T_MAX == Lit(10000000)

\* Mutant: the first sphere's color whenever it is hit, without comparing distances.
CastColor_FirstHit(sphere_hit, sphere2_hit) ==
    IF sphere_hit.some THEN RED
    ELSE IF sphere2_hit.some THEN GREEN
    ELSE MAGENTA

\* The color Ray::cast chooses from the two optional hits.
CastColor(sphere_hit, sphere2_hit) ==
    IF sphere_hit.some
    THEN IF sphere2_hit.some
         THEN (IF FLt(sphere_hit.val.dist, sphere2_hit.val.dist) THEN RED ELSE GREEN)
         ELSE RED
    ELSE IF sphere2_hit.some THEN GREEN
    ELSE MAGENTA

RayCast(r) ==
    CastColor(ray_sphere_intersection(r, sphere1, T_MIN, T_MAX),
              ray_sphere_intersection(r, sphere2, T_MIN, T_MAX))

color(r, g, b) == [r |-> r, g |-> g, b |-> b]
to_color(x) ==
    color(AsU8(FMul(x.x, Lit(255000))), AsU8(FMul(x.y, Lit(255000))),
          AsU8(FMul(x.z, Lit(255000))))

\* Window::should_close/set_should_close, glfw events and the GL upload are the
\* Presenter; image_data is Renderer's Vec<Color>, index y * width + x.
set_pixel(img, width, x, y, c) == [img EXCEPT ![y * width + x] = c]

\* ------------------------------------------------------------ constants
\* The window height (512 in the source), scaled down: the frame loop writes
\* WINDOW_WIDTH * WINDOW_HEIGHT * samples_per_pixel samples a frame.
WINDOW_HEIGHT == 2
\* (WINDOW_HEIGHT as f64 * ASPECT_RATIO) as usize, ASPECT_RATIO = 36.0 / 24.0
WINDOW_WIDTH == AsUsize(FMul(Fin(WINDOW_HEIGHT * Scale), FDiv(Lit(36000), Lit(24000))))
\* Frames of the main loop explored.
MaxFrames == 3
\* Camera changes (main.rs:259-260) explored between the generator harness's calls.
MaxCamChanges == 1

\* --------------------------------------------------------------- Camera
CameraNew(position, look, sensor, exposure, focal_length, iso) ==
    [position |-> position, look |-> look, sensor |-> sensor,
     exposure |-> exposure, focal_length |-> focal_length, iso |-> iso]

\* f64::sin by its Taylor polynomial x - x^3/6 + x^5/120 (|x| <= 1: t stays below
\* 0.1 * (MaxFrames + 1)).
FSin(x) ==
    LET x2 == FMul(x, x)
        x3 == FMul(x2, x)
        x5 == FMul(x3, x2)
    IN FAdd(FSub(x, FDiv(x3, Lit(6000))), FDiv(x5, Lit(120000)))

\* ---------------------------------------------------------- RayIterator
\* Mutant: the exposure itself, without the factor 100.
SamplesPerPixel_Unscaled(c) == AsUsize(c.exposure)

\* samples_per_pixel = (100.0 * cam.exposure) as usize
SamplesPerPixel(c) == AsUsize(FMul(Lit(100000), c.exposure))

RayIteratorNew(c) ==
    LET focal_point == VAdd(c.position, VMul(c.look, c.focal_length))
        sensor_x_axis == cross(c.look, V3(0, 1000, 0))
        sensor_y_axis == cross(c.look, sensor_x_axis)
        sensor_bottom_left ==
            VSub(VSub(c.position, VMul(VMul(sensor_x_axis, c.sensor.x), Lit(500))),
                 VMul(VMul(sensor_y_axis, c.sensor.y), Lit(500)))
        samples_per_pixel == SamplesPerPixel(c)
        total_samples == samples_per_pixel * WINDOW_WIDTH * WINDOW_HEIGHT
    IN [i |-> 0,
        samples_per_pixel |-> samples_per_pixel,
        total_samples |-> total_samples,
        sensor_bottom_left |-> sensor_bottom_left,
        sensor_x_axis |-> sensor_x_axis,
        sensor_y_axis |-> sensor_y_axis,
        sensor |-> c.sensor,
        focal_point |-> focal_point]

\* Mutant: the pixels enumerated column by column, y varying fastest.
RayIteratorItem_ColumnMajor(s, i) ==
    LET pixel_index == i \div s.samples_per_pixel
        pixel == vec2(pixel_index \div WINDOW_HEIGHT, pixel_index % WINDOW_HEIGHT)
        advance == vec2(FDiv(Fin(pixel.x * Scale), Fin(WINDOW_WIDTH * Scale)),
                        FDiv(Fin(pixel.y * Scale), Fin(WINDOW_HEIGHT * Scale)))
        ray_origin ==
            VAdd(VAdd(s.sensor_bottom_left,
                      VMul(VMul(s.sensor_x_axis, advance.x), s.sensor.x)),
                 VMul(VMul(s.sensor_y_axis, advance.y), s.sensor.y))
        ray_dir == normalize(VSub(s.focal_point, ray_origin))
    IN [pixel |-> pixel, ray |-> RayNew(ray_origin, ray_dir)]

\* Mutant: the focal point read from the caller's camera at each call, not from
\* the snapshot taken at construction.
RayIteratorItem_LiveCamera(s, i) ==
    LET pixel_index == i \div s.samples_per_pixel
        pixel == vec2(pixel_index % WINDOW_WIDTH, pixel_index \div WINDOW_WIDTH)
        advance == vec2(FDiv(Fin(pixel.x * Scale), Fin(WINDOW_WIDTH * Scale)),
                        FDiv(Fin(pixel.y * Scale), Fin(WINDOW_HEIGHT * Scale)))
        ray_origin ==
            VAdd(VAdd(s.sensor_bottom_left,
                      VMul(VMul(s.sensor_x_axis, advance.x), s.sensor.x)),
                 VMul(VMul(s.sensor_y_axis, advance.y), s.sensor.y))
        ray_dir == normalize(VSub(VAdd(cam.position, VMul(cam.look, cam.focal_length)),
                                 ray_origin))
    IN [pixel |-> pixel, ray |-> RayNew(ray_origin, ray_dir)]

\* The item next() builds for sample number i of iterator s.
RayIteratorItem(s, i) ==
    LET pixel_index == i \div s.samples_per_pixel
        pixel == vec2(pixel_index % WINDOW_WIDTH, pixel_index \div WINDOW_WIDTH)
        advance == vec2(FDiv(Fin(pixel.x * Scale), Fin(WINDOW_WIDTH * Scale)),
                        FDiv(Fin(pixel.y * Scale), Fin(WINDOW_HEIGHT * Scale)))
        ray_origin ==
            VAdd(VAdd(s.sensor_bottom_left,
                      VMul(VMul(s.sensor_x_axis, advance.x), s.sensor.x)),
                 VMul(VMul(s.sensor_y_axis, advance.y), s.sensor.y))
        ray_dir == normalize(VSub(s.focal_point, ray_origin))
    IN [pixel |-> pixel, ray |-> RayNew(ray_origin, ray_dir)]

\* Whether next() returns None for sample number i.
RayIteratorExhausted(s, i) == i >= s.total_samples

\* Iterator::next: the iterator after the call and the Option it returns.
RayIteratorNext(s) ==
    LET i == s.i
    IN [it |-> [s EXCEPT !.i = i + 1],
        item |-> IF RayIteratorExhausted(s, i) THEN None
                 ELSE Some(RayIteratorItem(s, i))]

\* ------------------------------------------------------------ state tuples
castVars == <<ray, isect, cast>>
camVars == <<cam, t, frames>>
mainVars == <<pc, it, image_data, window_close, shown, writes>>
genVars == <<genA, genB, outA, outB>>
vars == <<ray, isect, cast, cam, t, frames, pc, it, image_data, window_close, shown,
          writes, genA, genB, outA, outB>>

\* ------------------------------------------------------------ the inputs
Coords == {-10000, 0, 2000, 3000, 5000, 10000}
Origins == {V3(x, y, z) : x \in {0, 5000}, y \in Coords, z \in {0, 5000, 10000}}
Dirs == {V3(1000, 0, 0), V3(-1000, 0, 0), V3(0, 1000, 0), V3(0, -1000, 0),
         V3(0, 0, 1000), V3(0, 0, -1000), V3(0, 0, -2000), V3(0, 0, 0),
         normalize(V3(-1000, -1000, -1000))}
Rays == {RayNew(o, d) : o \in Origins, d \in Dirs}
Spheres == {sphere1, sphere2}
TMins == {T_MIN, Lit(9000)}
TMaxs == {T_MAX, Lit(10000)}

cam_pos == V3(10000, 10000, 10000)
sensor_size == vec2(millimeters(Lit(36000)), millimeters(Lit(24000)))
\* The camera main builds.
MainCamera ==
    CameraNew(cam_pos, normalize(VSub(V3(0, 0, 0), cam_pos)), sensor_size,
              Lit(10), millimeters(Lit(50000)), Lit(1000))
Looks == {MainCamera.look, V3(0, 0, -1000), V3(0, 1000, 0)}
Exposures == {Lit(5), Lit(10), Lit(20)}
Cameras == {[MainCamera EXCEPT !.look = l, !.exposure = e] : l \in Looks, e \in Exposures}

Pixels == 0 .. (WINDOW_WIDTH * WINDOW_HEIGHT - 1)
Black == color(0, 0, 0)
\* Renderer after create() and initialize(): width * height black pixels.
BlankImage == [p \in Pixels |-> Black]
NoWrites == [p \in Pixels |-> 0]

CastIdle == ray = RayNew(V3(0, 0, 0), V3(0, 0, 0)) /\ isect = None /\ cast = None
MainIdle ==
    /\ pc = "exit"
    /\ it = None
    /\ image_data = BlankImage
    /\ window_close = FALSE
    /\ shown = None
    /\ writes = NoWrites
NoOutput == [items |-> <<>>, done |-> FALSE]
GenIdle == genA = None /\ genB = None /\ outA = NoOutput /\ outB = NoOutput
CamIdle == cam = MainCamera /\ t = Lit(0) /\ frames = 0

\* ---------------------------------------------------------- cast harness
InitCast == ray \in Rays /\ isect = None /\ cast = None /\ CamIdle /\ MainIdle /\ GenIdle

\* One call ray_sphere_intersection(&ray, &sphere, t_min, t_max).
Intersect ==
    /\ \E sphere \in Spheres, t_min \in TMins, t_max \in TMaxs :
          isect' = Some([sphere |-> sphere, t_min |-> t_min, t_max |-> t_max,
                         res |-> ray_sphere_intersection(ray, sphere, t_min, t_max)])
    /\ UNCHANGED <<ray, cast, camVars, mainVars, genVars>>

\* One call ray.cast().
Cast ==
    /\ cast = None
    /\ LET sphere_hit == ray_sphere_intersection(ray, sphere1, T_MIN, T_MAX)
           sphere2_hit == ray_sphere_intersection(ray, sphere2, T_MIN, T_MAX)
       IN cast' = Some([sphere_hit |-> sphere_hit, sphere2_hit |-> sphere2_hit,
                        color |-> CastColor(sphere_hit, sphere2_hit)])
    /\ UNCHANGED <<ray, isect, camVars, mainVars, genVars>>

NextCast == Intersect \/ Cast
SpecCast == InitCast /\ [][NextCast]_vars

\* -------------------------------------------------------------- the camera
\* main.rs:259-260: t += 0.1; cam.focal_length += millimeters(t.sin() * 5.0).
AdvanceCamera ==
    LET t1 == FAdd(t, Lit(100))
    IN /\ t' = t1
       /\ cam' = [cam EXCEPT !.focal_length =
                     FAdd(@, millimeters(FMul(FSin(t1), Lit(5000))))]
       /\ frames' = frames + 1

\* ------------------------------------------------------------------ main
\* main after Renderer::create/initialize and Camera::new. main passes MainCamera;
\* Cameras holds it with the other looks and exposures Camera::new accepts.
Init ==
    /\ cam \in Cameras
    /\ t = Lit(0)
    /\ frames = 0
    /\ pc = "while"
    /\ it = None
    /\ image_data = BlankImage
    /\ window_close = FALSE
    /\ shown = None
    /\ writes = NoWrites
    /\ CastIdle
    /\ GenIdle

\* Mutant: the flag is never reported.
should_close_Never == FALSE

\* Renderer::should_close
should_close == window_close

\* Mutant: update() is called inside the loop body, after each sample.
ForLoopNext_UpdateInside(item) == "update"

\* Where the for loop goes after next(): into its body, or past its end.
ForLoopNext(item) == IF item.some THEN "for" ELSE "update"

\* while !renderer.should_close(): the loop body starts a frame.
FrameStart ==
    /\ pc = "while"
    /\ ~should_close
    /\ frames < MaxFrames
    /\ AdvanceCamera
    /\ it' = Some(RayIteratorNew(cam'))
    /\ writes' = NoWrites
    /\ pc' = "for"
    /\ UNCHANGED <<image_data, window_close, shown, castVars, genVars>>

\* while !renderer.should_close(): the loop ends.
LoopExit ==
    /\ pc = "while"
    /\ should_close
    /\ pc' = "exit"
    /\ UNCHANGED <<it, image_data, window_close, shown, writes, camVars, castVars, genVars>>

\* One turn of `for (pixel, ray) in cam.rays()`: next(), then the body, or the
\* loop's end when next() returns None.
ForStep ==
    /\ pc = "for"
    /\ LET r == RayIteratorNext(it.val)
       IN /\ it' = Some(r.it)
          /\ IF r.item.some
             THEN LET pixel == r.item.val.pixel
                      c == to_color(RayCast(r.item.val.ray))
                  IN /\ image_data' = set_pixel(image_data, WINDOW_WIDTH, pixel.x, pixel.y, c)
                     /\ writes' = [writes EXCEPT ![pixel.y * WINDOW_WIDTH + pixel.x] = @ + 1]
             ELSE UNCHANGED <<image_data, writes>>
          /\ pc' = ForLoopNext(r.item)
    /\ UNCHANGED <<window_close, shown, camVars, castVars, genVars>>

\* renderer.update(): upload image_data, swap, poll events; Escape (or the window's
\* close button) sets the should-close flag.
Update ==
    /\ pc = "update"
    /\ shown' = Some([image |-> image_data, writes |-> writes, it |-> it.val])
    /\ \E close \in BOOLEAN : window_close' = (window_close \/ close)
    /\ pc' = "while"
    /\ UNCHANGED <<it, image_data, writes, camVars, castVars, genVars>>

Next == FrameStart \/ LoopExit \/ ForStep \/ Update
Spec == Init /\ [][Next]_vars

\* ------------------------------------------------------ generator harness
\* Two generators built by cam.rays() and drained by next(), in any interleaving,
\* while the caller may change the camera as main does between frames.
InitGen ==
    /\ cam \in Cameras
    /\ t = Lit(0)
    /\ frames = 0
    /\ GenIdle
    /\ MainIdle
    /\ CastIdle

GenAdvanceCamera ==
    /\ frames < MaxCamChanges
    /\ AdvanceCamera
    /\ UNCHANGED <<mainVars, castVars, genVars>>

\* cam.rays(): the generator, kept with the Camera value it was built from.
Rays_(c) == Some([cam |-> c, it |-> RayIteratorNew(c)])
\* One next() on generator g with output o: the pair after the call.
Drain(g, o) ==
    LET r == RayIteratorNext(g.val.it)
    IN [gen |-> Some([g.val EXCEPT !.it = r.it]),
        out |-> IF r.item.some
                THEN [o EXCEPT !.items = Append(@, r.item.val)]
                ELSE [o EXCEPT !.done = TRUE]]

NewA ==
    /\ genA = None
    /\ genA' = Rays_(cam)
    /\ UNCHANGED <<genB, outA, outB, camVars, mainVars, castVars>>
NewB ==
    /\ genB = None
    /\ genB' = Rays_(cam)
    /\ UNCHANGED <<genA, outA, outB, camVars, mainVars, castVars>>
NextA ==
    /\ genA.some
    /\ ~outA.done
    /\ genA' = Drain(genA, outA).gen
    /\ outA' = Drain(genA, outA).out
    /\ UNCHANGED <<genB, outB, camVars, mainVars, castVars>>
NextB ==
    /\ genB.some
    /\ ~outB.done
    /\ genB' = Drain(genB, outB).gen
    /\ outB' = Drain(genB, outB).out
    /\ UNCHANGED <<genA, outA, camVars, mainVars, castVars>>

NextGen == GenAdvanceCamera \/ NewA \/ NewB \/ NextA \/ NextB
SpecGen == InitGen /\ [][NextGen]_vars

\* =============================================================== claims
ZeroVec == V3(0, 0, 0)
PixelIndex(px) == px.y * WINDOW_WIDTH + px.x
\* The positions of output o that carry framebuffer index p.
ItemsAt(o, p) == {n \in 1 .. Len(o.items) : PixelIndex(o.items[n].pixel) = p}

\* C1 for one generator g with output o: item n (1-based) carries pixel
\* (((n-1) div k) mod W, ((n-1) div k) div W); no more than k*W*H items come, and
\* once next() has returned None exactly k*W*H have come, k of them at every pixel,
\* in consecutive positions.
RowMajorOrder(g, o) ==
    LET k == g.val.it.samples_per_pixel
    IN /\ Len(o.items) <= k * WINDOW_WIDTH * WINDOW_HEIGHT
       /\ \A n \in 1 .. Len(o.items) :
             /\ o.items[n].pixel.x = ((n - 1) \div k) % WINDOW_WIDTH
             /\ o.items[n].pixel.y = ((n - 1) \div k) \div WINDOW_WIDTH
       /\ o.done =>
             /\ Len(o.items) = k * WINDOW_WIDTH * WINDOW_HEIGHT
             /\ \A p \in Pixels : ItemsAt(o, p) = (p * k + 1) .. (p * k + k)

\* C1: a drained RayIterator yields exactly k*W*H items, k consecutive items per
\* pixel, the pixels in row-major order with x varying fastest.
C1_RowMajorCoverage ==
    /\ genA.some => RowMajorOrder(genA, outA)
    /\ genB.some => RowMajorOrder(genB, outB)
\* A generator with two samples per pixel has been drained to None.
C1_Witness ==
    /\ genA.some
    /\ genA.val.it.samples_per_pixel = 2
    /\ outA.done
    /\ Len(outA.items) = 2 * WINDOW_WIDTH * WINDOW_HEIGHT

\* C2: Ray::cast returns the color of the strictly nearer sphere when both are hit,
\* the color of the only sphere hit when one is, and the background otherwise.
C2_NearestHit ==
    cast.some =>
        LET h1 == cast.val.sphere_hit
            h2 == cast.val.sphere2_hit
            col == cast.val.color
        IN /\ h1 = ray_sphere_intersection(ray, sphere1, T_MIN, T_MAX)
           /\ h2 = ray_sphere_intersection(ray, sphere2, T_MIN, T_MAX)
           /\ (h1.some /\ h2.some /\ FLt(h1.val.dist, h2.val.dist)) => col = RED
           /\ (h1.some /\ h2.some /\ FLt(h2.val.dist, h1.val.dist)) => col = GREEN
           /\ (h1.some /\ ~h2.some) => col = RED
           /\ (~h1.some /\ h2.some) => col = GREEN
           /\ (~h1.some /\ ~h2.some) => col = MAGENTA
\* A ray that hits both spheres, the second sphere strictly nearer, has been cast.
C2_Witness ==
    /\ cast.some
    /\ cast.val.sphere_hit.some
    /\ cast.val.sphere2_hit.some
    /\ FLt(cast.val.sphere2_hit.val.dist, cast.val.sphere_hit.val.dist)
    /\ cast.val.color = GREEN

\* C3: when both spheres are hit at exactly equal distance, Ray::cast returns the
\* first sphere's color.
C3_TieFirstSphereWins ==
    (/\ cast.some
     /\ cast.val.sphere_hit.some
     /\ cast.val.sphere2_hit.some
     /\ FEq(cast.val.sphere_hit.val.dist, cast.val.sphere2_hit.val.dist))
        => cast.val.color = RED

\* A frame is complete for iterator s and write counts w: next() has returned None
\* and every pixel has had its samples_per_pixel set_pixel calls.
FrameComplete(s, w) ==
    /\ s.i > s.total_samples
    /\ \A p \in Pixels : w[p] = s.samples_per_pixel

\* C4: update() runs, and uploads the framebuffer, only when every sample of the
\* frame's generator has been emitted and written.
C4_NoPartialFramePresented ==
    /\ pc = "update" => FrameComplete(it.val, writes)
    /\ shown.some => FrameComplete(shown.val.it, shown.val.writes)
\* update() has presented a frame of at least one sample.
C4_Witness ==
    /\ shown.some
    /\ shown.val.it.total_samples > 0
    /\ shown.val.image = image_data

\* C5: the loop leaves only from the while condition, with the close flag set and
\* the last frame complete and presented; the close flag changes only in update();
\* a frame once started runs through all its samples to update(); once the flag is
\* seen set at the while condition the loop leaves; and after the exit nothing is
\* generated or written.
C5_CloseOnlyBetweenFrames ==
    [][/\ (pc # "exit" /\ pc' = "exit") =>
            /\ pc = "while"
            /\ window_close
            /\ FrameComplete(it.val, writes)
            /\ shown.some /\ shown.val.image = image_data
       /\ (window_close' # window_close) => pc = "update"
       /\ (pc = "for") => (pc' \in {"for", "update"} /\ (pc' = "update" => it'.val.i > it'.val.total_samples))
       /\ (pc = "update") => pc' = "while"
       /\ (pc = "while" /\ window_close) => pc' = "exit"
       /\ (pc = "exit") => UNCHANGED <<it, image_data, writes, shown>>]_vars
\* The loop has exited after a frame of at least one sample.
C5_Witness ==
    /\ pc = "exit"
    /\ it.some
    /\ it.val.total_samples > 0
    /\ FrameComplete(it.val, writes)

\* look is parallel to world-up: sensor_x = cross(look, (0,1,0)) is the zero vector.
Degenerate(c) == cross(c.look, V3(0, 1000, 0)) = ZeroVec

\* C6: a generator built from a degenerate Camera reports an error instead of
\* yielding (pixel, ray) items.
C6_DegenerateCameraRejected ==
    /\ (genA.some /\ Degenerate(genA.val.cam)) => Len(outA.items) = 0
    /\ (genB.some /\ Degenerate(genB.val.cam)) => Len(outB.items) = 0

\* C7: ray_sphere_intersection rejects a ray of zero-length direction: it returns
\* no hit record for it (a record there is the quotient by a = 0).
C7_ZeroDirectionRejected ==
    (isect.some /\ ray.dir = ZeroVec) => ~isect.val.res.some

\* Output o1 is output o2 so far: the same items position by position, and no
\* longer than o2 once o2 has ended.
SameSoFar(o1, o2) ==
    /\ \A n \in 1 .. Len(o1.items) : n <= Len(o2.items) => o1.items[n] = o2.items[n]
    /\ o2.done => Len(o1.items) <= Len(o2.items)

\* C8: two generators built from equal Camera values yield the same sequence of
\* (pixel, ray) items, of the same length, whatever else happened in between.
C8_Deterministic ==
    (genA.some /\ genB.some /\ genA.val.cam = genB.val.cam) =>
        (SameSoFar(outA, outB) /\ SameSoFar(outB, outA))
\* Two generators of one Camera value have both been drained, the caller's camera
\* having changed meanwhile.
C8_Witness ==
    /\ genA.some /\ genB.some
    /\ genA.val.cam = genB.val.cam
    /\ cam # genA.val.cam
    /\ outA.done /\ outB.done
    /\ Len(outA.items) > 0
    /\ outA.items = outB.items

\* The quadratic of one intersection call, as section 4.3 writes it.
Quadratic(r, sphere) ==
    LET oc == VSub(r.origin, sphere.center)
        a == dot(r.dir, r.dir)
        half_b == dot(oc, r.dir)
        c == FSub(dot(oc, oc), FMul(sphere.radius, sphere.radius))
        disc == FSub(FMul(half_b, half_b), FMul(a, c))
    IN [disc |-> disc,
        near |-> FDiv(FSub(FNeg(half_b), FSqrt(disc)), a),
        far |-> FDiv(FAdd(FNeg(half_b), FSqrt(disc)), a)]
ExampleRay == RayNew(V3(0, 0, 10000), V3(0, 0, -1000))

\* C9: for a ray of non-zero direction the result is none when disc < 0, else the
\* nearer root when it lies in [t_min, t_max], else the farther root when that one
\* does, else none; a hit has t_min <= dist <= t_max and point = origin + dir*dist;
\* the sphere of radius 2 at the origin is hit from (0,0,10) along (0,0,-1) at
\* distance 8, point (0,0,2), normal (0,0,1).
C9_RootSelection ==
    (isect.some /\ ray.dir # ZeroVec) =>
        LET call == isect.val
            res == call.res
            q == Quadratic(ray, call.sphere)
            InRange(x) == FLe(call.t_min, x) /\ FLe(x, call.t_max)
        IN /\ FLt(q.disc, Lit(0)) => ~res.some
           /\ (~FLt(q.disc, Lit(0)) /\ InRange(q.near)) =>
                 (res.some /\ res.val.dist = q.near)
           /\ (~FLt(q.disc, Lit(0)) /\ ~InRange(q.near) /\ InRange(q.far)) =>
                 (res.some /\ res.val.dist = q.far)
           /\ (~FLt(q.disc, Lit(0)) /\ ~InRange(q.near) /\ ~InRange(q.far)) => ~res.some
           /\ res.some =>
                 /\ InRange(res.val.dist)
                 /\ res.val.point = VAdd(ray.origin, VMul(ray.dir, res.val.dist))
           /\ (ray = ExampleRay /\ call.sphere = sphere1 /\ call.t_min = T_MIN
                  /\ call.t_max = T_MAX) =>
                 /\ res.some
                 /\ res.val.dist = Lit(8000)
                 /\ res.val.point = V3(0, 0, 2000)
                 /\ res.val.norm = V3(0, 0, 1000)
\* The nearer root lies below t_min and the farther root is the hit returned.
C9_Witness ==
    /\ isect.some
    /\ ray = ExampleRay
    /\ isect.val.sphere = sphere1
    /\ isect.val.t_min = Lit(9000)
    /\ isect.val.res.some
    /\ isect.val.res.val.dist = Lit(12000)

\* C10 as stated: every positive exposure gives a positive samples_per_pixel, a
\* positive total_samples, and a frame that writes every pixel at least once.
C10_PositiveExposureSamples ==
    (it.some /\ FLt(Lit(0), cam.exposure)) =>
        /\ it.val.samples_per_pixel > 0
        /\ it.val.total_samples > 0
        /\ pc = "update" => \A p \in Pixels : writes[p] >= 1

\* C10 amended: an exposure of at least 0.01 gives samples_per_pixel =
\* floor(100 * exposure) >= 1, total_samples = samples_per_pixel * W * H > 0, and a
\* frame that writes every pixel at least once.
C10_ExposureAtLeastOneHundredth ==
    (it.some /\ FLe(Lit(10), cam.exposure)) =>
        /\ it.val.samples_per_pixel >= 1
        /\ it.val.samples_per_pixel * Scale <= FMul(Lit(100000), cam.exposure).v
        /\ FMul(Lit(100000), cam.exposure).v < (it.val.samples_per_pixel + 1) * Scale
        /\ it.val.total_samples = it.val.samples_per_pixel * WINDOW_WIDTH * WINDOW_HEIGHT
        /\ it.val.total_samples > 0
        /\ pc = "update" => \A p \in Pixels : writes[p] >= 1
\* A frame of the camera of exposure 0.01 has been written in full.
C10_Witness ==
    /\ pc = "update"
    /\ cam.exposure = Lit(10)
    /\ it.val.samples_per_pixel = 1
    /\ \A p \in Pixels : writes[p] = 1

====
